---- MODULE Spec2Model ----
(***************************************************************************)
(* A model of the Hermes virtual file driver (src/src/H5FDhermes.c): one   *)
(* file object, its bucket of page blobs in the buffer store, the backing  *)
(* file of persistent mode, and the driver's entry points open, read,      *)
(* write, set_eoa, close and terminate.                                    *)
(*                                                                         *)
(* Byte buffers are sequences; the byte at C offset o is element o + 1.    *)
(***************************************************************************)
EXTENDS Integers, Sequences, FiniteSets, TLC

(***************************************************************************)
(* Bounds of the model.                                                    *)
(***************************************************************************)
\* haddr_t is modelled AddrBits wide (64 in the build); arithmetic on
\* addresses wraps modulo 2^AddrBits.
AddrBits == 12
\* Requests are drawn from addresses 0..MaxAddr and sizes 0..MaxSize.
MaxAddr == 2
MaxSize == 4
\* Page sizes given to H5Pset_fapl_hermes are drawn from 2..MaxPageSize.
MaxPageSize == 3
\* At most MaxWrites calls of H5FD__hermes_write reach the page loop.
MaxWrites == 2
\* At most MaxCalls calls of read and write on one open file.
MaxCalls == 3
\* The backing file found by the first open has at most MaxFileLen bytes.
MaxFileLen == 4

(***************************************************************************)
(* Program constants.                                                      *)
(***************************************************************************)
LEN_BLOB_NAME == 10

Pow2(n) == 2 ^ n

HADDR_UNDEF == Pow2(AddrBits) - 1

MAXADDR == Pow2(AddrBits - 1) - 1

\* Unsigned arithmetic of width AddrBits.
Wrap(x) == x % Pow2(AddrBits)

\* The value of an unsigned AddrBits-wide quantity cast to HDoff_t.
AsOff(x) == IF x > MAXADDR THEN x - Pow2(AddrBits) ELSE x

ADDR_OVERFLOW(A) == (A = HADDR_UNDEF) \/ (A > MAXADDR)

SIZE_OVERFLOW(Z) == Z > MAXADDR

REGION_OVERFLOW(A, Z) ==
    \/ ADDR_OVERFLOW(A)
    \/ SIZE_OVERFLOW(Z)
    \/ HADDR_UNDEF = Wrap(A + Z)
    \/ AsOff(Wrap(A + Z)) < AsOff(A)

H5F_addr_defined(A) == A # HADDR_UNDEF

(***************************************************************************)
(* Bytes.                                                                  *)
(***************************************************************************)
\* Byte i (from 0) of the buffer handed to the n-th write: every written
\* byte is distinguishable from every other and from zero.
WriteStamp(n, i) == 16 * n + i + 1

\* Byte at offset o of the backing file as found by the first open.
FileStamp(o) == 200 + o

\* What uninitialised memory may hold (malloc'ed page_buf, bytes past the
\* end of a caller's buffer): zero or anything else.
GarbageBytes == {0, 165}

Zeros(n) == [i \in 1..n |-> 0]

Min(a, b) == IF a < b THEN a ELSE b

Max(a, b) == IF a > b THEN a ELSE b

\* A variant of Memcpy that zeroes the bytes of dst it does not copy to.
MemcpyClobber(dst, off, src, n) ==
    [i \in 1..Len(dst) |-> IF i > off /\ i <= off + n THEN src[i - off] ELSE 0]

\* memcpy(dst + off, src, n): dst with n bytes of src placed at offset off.
Memcpy(dst, off, src, n) ==
    [i \in 1..Len(dst) |-> IF i > off /\ i <= off + n THEN src[i - off] ELSE dst[i]]

\* n bytes of src from offset off (bytes past the end of src are not taken).
Slice(src, off, n) == [i \in 1..n |-> src[off + i]]

(***************************************************************************)
(* Blob names: snprintf(k_blob, sizeof(k_blob), "%zu\n", k).               *)
(***************************************************************************)
DigitChar(d) == <<"0", "1", "2", "3", "4", "5", "6", "7", "8", "9">>[d + 1]

RECURSIVE Decimal(_)
Decimal(k) == IF k < 10 THEN <<DigitChar(k)>>
              ELSE Append(Decimal(k \div 10), DigitChar(k % 10))

Truncate(s, n) == IF Len(s) <= n THEN s ELSE SubSeq(s, 1, n)

\* snprintf writes at most LEN_BLOB_NAME - 1 characters and a NUL.
BlobName(k) == Truncate(Append(Decimal(k), "\n"), LEN_BLOB_NAME - 1)

(***************************************************************************)
(* The buffer store: a bucket is a function from blob names to blobs.      *)
(***************************************************************************)
EmptyBucket == << >>

HermesBucketContainsBlob(bkt, name) == name \in DOMAIN bkt

\* Copies the named blob into the destination buffer.
HermesBucketGet(bkt, name) == bkt[name]

\* Stores data under the name, replacing any earlier blob of that name.
HermesBucketPut(bkt, name, data) ==
    [n \in (DOMAIN bkt) \cup {name} |-> IF n = name THEN data ELSE bkt[n]]

(***************************************************************************)
(* The file object, H5FD_hermes_t.  A NULL buffer or mapping is << >>.     *)
(***************************************************************************)
NULL == << >>

NoFile == [open |-> FALSE]

OP_UNKNOWN == "OP_UNKNOWN"

OP_READ == "OP_READ"

OP_WRITE == "OP_WRITE"

SUCCEED == "SUCCEED"

FAIL == "FAIL"

\* Events a call issues, in order: buffer-store and backing-file operations.
Ev(kind, arg) == <<kind, arg>>

(***************************************************************************)
(* The page arithmetic shared by read and write.                           *)
(***************************************************************************)
StartPageIndex(addr, blob_size) == addr \div blob_size

EndPageIndex(addr, size, blob_size) == Wrap(addr + size) \div blob_size

AddrEnd(addr, size) == Wrap(addr + size - 1)

\* addr lies strictly inside page k: the transfer starts part-way into it.
InFirstPartial(addr, k, blob_size) ==
    addr > k * blob_size /\ addr < (k + 1) * blob_size

\* A variant of InLastPartial that misses the page whose only byte in the
\* transfer is its first one.
InLastPartialStrict(addr_end, k, blob_size) ==
    addr_end > k * blob_size /\ addr_end < (k + 1) * blob_size - 1

\* addr_end lies in page k before its last byte: the transfer ends
\* part-way into it.
InLastPartial(addr_end, k, blob_size) ==
    addr_end >= k * blob_size /\ addr_end < (k + 1) * blob_size - 1

\* Page k lies wholly inside the transfer.
InWholePage(addr, addr_end, k, blob_size) ==
    addr <= k * blob_size /\ addr_end >= (k + 1) * blob_size - 1

\* A variant of FirstLen that stops one byte short of the page boundary.
FirstLenShort(addr, addr_end, size, k, blob_size) ==
    IF addr_end <= (k + 1) * blob_size - 1 THEN size
    ELSE (k + 1) * blob_size - addr - 1

\* Bytes transferred for the page the transfer starts part-way into.
FirstLen(addr, addr_end, size, k, blob_size) ==
    IF addr_end <= (k + 1) * blob_size - 1 THEN size
    ELSE (k + 1) * blob_size - addr

\* A variant of LastLen that leaves out the byte at addr_end.
LastLenShort(addr_end, k, blob_size) == addr_end - k * blob_size

\* Bytes transferred for the page the transfer ends part-way into.
LastLen(addr_end, k, blob_size) == addr_end - k * blob_size + 1

\* A variant of ResetIO that forgets the operation.
ResetIOPosOnly(file) == [file EXCEPT !.pos = HADDR_UNDEF]

\* A variant of ResetIO that also forgets the end of file.
ResetIOAndEof(file) ==
    [file EXCEPT !.pos = HADDR_UNDEF, !.op = OP_UNKNOWN, !.eof = 0]

\* A variant of ResetIO that also drops the record of writes.
ResetIODropRecord(file) ==
    [file EXCEPT !.pos = HADDR_UNDEF, !.op = OP_UNKNOWN,
                 !.hermes_file_mapping = << >>]

\* The done: block of read and write on failure.
ResetIO(file) == [file EXCEPT !.pos = HADDR_UNDEF, !.op = OP_UNKNOWN]

\* A variant of NewEof that always follows the position.
NewEofLastPos(eof, pos) == pos

\* "if (file->pos > file->eof) file->eof = file->pos", as the new eof.
NewEof(eof, pos) == IF pos > eof THEN pos ELSE eof

(***************************************************************************)
(* H5FD__hermes_write                                                      *)
(***************************************************************************)
\* One iteration of the page loop of write, for page k.  st carries the
\* locals and the state the loop changes: page_buf, bkt, transfer_size and
\* the events issued.  buf is the caller's buffer followed by whatever
\* memory follows it.
WritePage(st, k, addr, size, buf, blob_size) ==
    LET addr_end == AddrEnd(addr, size)
        k_blob == BlobName(k)
        blob_exists == HermesBucketContainsBlob(st.bkt, k_blob)
    IN  IF InFirstPartial(addr, k, blob_size)
        THEN LET loaded == IF blob_exists THEN HermesBucketGet(st.bkt, k_blob)
                           ELSE st.page_buf
                 offset == addr - k * blob_size
                 n == FirstLen(addr, addr_end, size, k, blob_size)
                 page == Memcpy(loaded, offset, Slice(buf, st.transfer_size, n), n)
             IN  [page_buf |-> page,
                  bkt |-> HermesBucketPut(st.bkt, k_blob, page),
                  transfer_size |-> st.transfer_size + n,
                  trace |-> st.trace \o <<Ev("contains", k)>>
                            \o (IF blob_exists THEN <<Ev("get", k)>> ELSE << >>)
                            \o <<Ev("put", k)>>]
        ELSE IF InLastPartial(addr_end, k, blob_size)
        THEN LET loaded == IF blob_exists THEN HermesBucketGet(st.bkt, k_blob)
                           ELSE st.page_buf
                 n == LastLen(addr_end, k, blob_size)
                 page == Memcpy(loaded, 0, Slice(buf, st.transfer_size, n), n)
             IN  [page_buf |-> page,
                  bkt |-> HermesBucketPut(st.bkt, k_blob, page),
                  transfer_size |-> st.transfer_size + n,
                  trace |-> st.trace \o <<Ev("contains", k)>>
                            \o (IF blob_exists THEN <<Ev("get", k)>> ELSE << >>)
                            \o <<Ev("put", k)>>]
        ELSE IF InWholePage(addr, addr_end, k, blob_size)
        THEN [page_buf |-> st.page_buf,
              bkt |-> HermesBucketPut(st.bkt, k_blob,
                                      Slice(buf, st.transfer_size, blob_size)),
              transfer_size |-> st.transfer_size + blob_size,
              trace |-> Append(st.trace, Ev("put", k))]
        ELSE st

RECURSIVE WriteLoop(_, _, _, _, _, _, _)
WriteLoop(st, k, end_page_index, addr, size, buf, blob_size) ==
    IF k > end_page_index THEN st
    ELSE WriteLoop(WritePage(st, k, addr, size, buf, blob_size),
                   k + 1, end_page_index, addr, size, buf, blob_size)

\* The record write appends to hermes_file_mapping.
BlobFileMapping(addr, size, blob_size) ==
    [start_page_index |-> StartPageIndex(addr, blob_size),
     num_pages |-> EndPageIndex(addr, size, blob_size)
                   - StartPageIndex(addr, blob_size) + 1,
     size |-> size,
     addr |-> addr]

\* The whole call: the file object and the bucket it leaves, its return
\* value and the events it issued.
HermesWrite(file, bkt, addr, size, buf) ==
    IF \/ ~H5F_addr_defined(addr)
       \/ REGION_OVERFLOW(addr, size)
       \/ file.page_buf = NULL
    THEN [file |-> ResetIO(file),
          bkt |-> bkt, ret |-> FAIL, trace |-> << >>]
    ELSE LET blob_size == file.buf_size
             start_page_index == StartPageIndex(addr, blob_size)
             end_page_index == EndPageIndex(addr, size, blob_size)
             st == WriteLoop([page_buf |-> file.page_buf, bkt |-> bkt,
                              transfer_size |-> 0, trace |-> << >>],
                             start_page_index, end_page_index,
                             addr, size, buf, blob_size)
             pos == Wrap(addr + size)
         IN  [file |-> [file EXCEPT
                          !.hermes_file_mapping =
                              Append(@, BlobFileMapping(addr, size, blob_size)),
                          !.page_buf = st.page_buf,
                          !.pos = pos,
                          !.op = OP_WRITE,
                          !.eof = NewEof(@, pos)],
              bkt |-> st.bkt, ret |-> SUCCEED, trace |-> st.trace]

(***************************************************************************)
(* The backing file: fseek, fread, fwrite on file->fp.                     *)
(***************************************************************************)
\* fread(dst, 1, n, fp) at file position off: the bytes the file has there,
\* at most n.
Fread(data, off, n) == Slice(data, off, Max(0, Min(n, Len(data) - off)))

\* fwrite(src, 1, n, fp) at file position off: a gap between the end of the
\* file and off reads as zeros; writing nothing leaves the file alone.
Fwrite(data, off, src, n) ==
    IF n = 0 THEN data
    ELSE [i \in 1..Max(Len(data), off + n) |->
            IF i > off /\ i <= off + n THEN src[i - off]
            ELSE IF i <= Len(data) THEN data[i]
            ELSE 0]

(***************************************************************************)
(* H5FD__hermes_read                                                       *)
(***************************************************************************)
\* A variant of BeyondEof that lets a read starting at eof into the page loop.
BeyondEofStrict(addr, eof) == addr > eof

\* The test of the zero-fill short-circuit.
BeyondEof(addr, eof) == addr >= eof

\* The branch taken when page k has no blob: fseek(file->fp, addr, SEEK_SET)
\* and fread of blob_size bytes into dst at offset dst_off.  With no backing
\* file file->fp is NULL and the fseek is undefined behaviour: ub is what
\* the build makes of it.
ReadFault(file, disk, addr, dst, dst_off, ub) ==
    IF file.fp = "NULL"
    THEN [status |-> ub, dst |-> dst,
          trace |-> <<Ev("fseek", addr)>>]
    ELSE LET got == Fread(disk, addr, file.buf_size)
         IN  [status |-> IF Len(got) # file.buf_size THEN FAIL ELSE "run",
              dst |-> Memcpy(dst, dst_off, got, Len(got)),
              trace |-> <<Ev("fseek", addr), Ev("fread", Len(got))>>]

\* One iteration of the page loop of read, for page k.  st carries
\* page_buf, the caller's buffer buf, transfer_size, the events issued and
\* status: "run", FAIL after a goto done, or "crash".
ReadPage(st, k, file, bkt, disk, addr, size, ub) ==
    LET blob_size == file.buf_size
        addr_end == AddrEnd(addr, size)
        k_blob == BlobName(k)
        blob_exists == HermesBucketContainsBlob(bkt, k_blob)
        seen == Append(st.trace, Ev("contains", k))
    IN  IF InFirstPartial(addr, k, blob_size)
        THEN LET offset == addr - k * blob_size
                 flt == ReadFault(file, disk, addr, st.page_buf, 0, ub)
                 page == IF blob_exists THEN HermesBucketGet(bkt, k_blob) ELSE flt.dst
                 status == IF blob_exists THEN "run" ELSE flt.status
                 n == FirstLen(addr, addr_end, size, k, blob_size)
                 tr == seen \o (IF blob_exists THEN <<Ev("get", k)>> ELSE flt.trace)
             IN  IF status # "run"
                 THEN [st EXCEPT !.page_buf = page, !.status = status, !.trace = tr]
                 ELSE [page_buf |-> page,
                       buf |-> Memcpy(st.buf, 0, Slice(page, offset, n), n),
                       transfer_size |-> st.transfer_size + n,
                       trace |-> tr,
                       status |-> "run"]
        ELSE IF InLastPartial(addr_end, k, blob_size)
        THEN LET flt == ReadFault(file, disk, addr, st.page_buf, 0, ub)
                 page == IF blob_exists THEN HermesBucketGet(bkt, k_blob) ELSE flt.dst
                 status == IF blob_exists THEN "run" ELSE flt.status
                 n == LastLen(addr_end, k, blob_size)
                 tr == seen \o (IF blob_exists THEN <<Ev("get", k)>> ELSE flt.trace)
             IN  IF status # "run"
                 THEN [st EXCEPT !.page_buf = page, !.status = status, !.trace = tr]
                 ELSE [page_buf |-> page,
                       buf |-> Memcpy(st.buf, st.transfer_size, Slice(page, 0, n), n),
                       transfer_size |-> st.transfer_size + n,
                       trace |-> tr,
                       status |-> "run"]
        ELSE IF InWholePage(addr, addr_end, k, blob_size)
        THEN LET flt == ReadFault(file, disk, addr, st.buf, st.transfer_size, ub)
                 out == IF blob_exists
                        THEN Memcpy(st.buf, st.transfer_size,
                                    HermesBucketGet(bkt, k_blob), blob_size)
                        ELSE flt.dst
                 status == IF blob_exists THEN "run" ELSE flt.status
                 tr == seen \o (IF blob_exists THEN <<Ev("get", k)>> ELSE flt.trace)
             IN  IF status # "run"
                 THEN [st EXCEPT !.buf = out, !.status = status, !.trace = tr]
                 ELSE [page_buf |-> st.page_buf,
                       buf |-> out,
                       transfer_size |-> st.transfer_size + blob_size,
                       trace |-> tr,
                       status |-> "run"]
        ELSE [st EXCEPT !.trace = seen]

RECURSIVE ReadLoop(_, _, _, _, _, _, _, _, _)
ReadLoop(st, k, end_page_index, file, bkt, disk, addr, size, ub) ==
    IF k > end_page_index \/ st.status # "run" THEN st
    ELSE ReadLoop(ReadPage(st, k, file, bkt, disk, addr, size, ub),
                  k + 1, end_page_index, file, bkt, disk, addr, size, ub)

\* The whole call.  buf is the caller's buffer as passed in; the result has
\* the file object, the buffer as left, the return value ("crash" when the
\* call does not return) and the events issued.
HermesRead(file, bkt, disk, addr, size, buf, ub) ==
    IF \/ ~H5F_addr_defined(addr)
       \/ REGION_OVERFLOW(addr, size)
       \/ file.page_buf = NULL
    THEN [file |-> ResetIO(file),
          buf |-> buf, ret |-> FAIL, trace |-> << >>]
    ELSE IF size = 0
    THEN [file |-> file, buf |-> buf, ret |-> SUCCEED, trace |-> << >>]
    ELSE IF BeyondEof(addr, file.eof)
    THEN [file |-> file, buf |-> Zeros(size), ret |-> SUCCEED, trace |-> << >>]
    ELSE LET blob_size == file.buf_size
             start_page_index == StartPageIndex(addr, blob_size)
             end_page_index == EndPageIndex(addr, size, blob_size)
             st == ReadLoop([page_buf |-> file.page_buf, buf |-> buf,
                             transfer_size |-> 0, trace |-> << >>,
                             status |-> "run"],
                            start_page_index, end_page_index,
                            file, bkt, disk, addr, size, ub)
         IN  IF st.status = "run"
             THEN [file |-> [file EXCEPT !.page_buf = st.page_buf,
                                         !.pos = Wrap(addr + size),
                                         !.op = OP_READ],
                   buf |-> st.buf, ret |-> SUCCEED, trace |-> st.trace]
             ELSE IF st.status = FAIL
             THEN [file |-> ResetIO([file EXCEPT !.page_buf = st.page_buf]),
                   buf |-> st.buf, ret |-> FAIL, trace |-> st.trace]
             ELSE [file |-> [file EXCEPT !.page_buf = st.page_buf],
                   buf |-> st.buf, ret |-> "crash", trace |-> st.trace]

(***************************************************************************)
(* H5FD__hermes_close                                                      *)
(***************************************************************************)
\* One iteration of the inner loop of close: page j of the write recorded
\* as m.  st carries the backing file, its file position, page_buf, the
\* events issued and status ("run" or FAIL).
ClosePage(st, j, m, bkt, blob_size) ==
    LET addr == m.addr
        size == m.size
        addr_end == AddrEnd(addr, size)
        j_blob == BlobName(j)
        blob_exists == HermesBucketContainsBlob(bkt, j_blob)
        page == HermesBucketGet(bkt, j_blob)
        seen == st.trace \o <<Ev("contains", j), Ev("get", j)>>
    IN  IF ~blob_exists
        THEN [st EXCEPT !.status = FAIL, !.trace = Append(@, Ev("contains", j))]
        ELSE IF j = m.start_page_index
        THEN LET bytes_in == FirstLen(addr, addr_end, size, j, blob_size)
             IN  [st EXCEPT
                    !.page_buf = page,
                    !.disk = Fwrite(st.disk, addr,
                                    Slice(page, addr - blob_size * j, bytes_in),
                                    bytes_in),
                    !.fpos = addr + bytes_in,
                    !.trace = seen \o <<Ev("fseek", addr), Ev("fwrite", bytes_in)>>]
        ELSE IF j = m.start_page_index + m.num_pages - 1
        THEN LET bytes_in == (Wrap(addr + size - 1) % blob_size) + 1
             IN  [st EXCEPT
                    !.page_buf = page,
                    !.disk = Fwrite(st.disk, st.fpos, Slice(page, 0, bytes_in), bytes_in),
                    !.fpos = st.fpos + bytes_in,
                    !.trace = Append(seen, Ev("fwrite", bytes_in))]
        ELSE [st EXCEPT
                !.page_buf = page,
                !.disk = Fwrite(st.disk, st.fpos, page, blob_size),
                !.fpos = st.fpos + blob_size,
                !.trace = Append(seen, Ev("fwrite", blob_size))]

RECURSIVE ClosePages(_, _, _, _, _)
ClosePages(st, j, m, bkt, blob_size) ==
    IF j >= m.start_page_index + m.num_pages \/ st.status # "run" THEN st
    ELSE ClosePages(ClosePage(st, j, m, bkt, blob_size), j + 1, m, bkt, blob_size)

\* The outer loop of close over hermes_file_mapping[i .. num_writes - 1].
RECURSIVE CloseWrites(_, _, _, _, _)
CloseWrites(st, i, mapping, bkt, blob_size) ==
    IF i > Len(mapping) \/ st.status # "run" THEN st
    ELSE LET m == mapping[i]
             after == ClosePages(st, m.start_page_index, m, bkt, blob_size)
             pos == Wrap(m.addr + m.size)
         IN  IF after.status # "run" THEN after
             ELSE CloseWrites([after EXCEPT !.pos = pos,
                                            !.op = OP_WRITE,
                                            !.eof = NewEof(@, pos)],
                              i + 1, mapping, bkt, blob_size)

\* The whole call: on success the file object is freed, the backing file
\* closed and the bucket destroyed; on failure all three stay.
HermesClose(file, bkt, disk) ==
    LET st == IF file.persistence
              THEN CloseWrites([disk |-> disk, fpos |-> 0,
                                page_buf |-> file.page_buf, trace |-> << >>,
                                status |-> "run", pos |-> file.pos,
                                op |-> file.op, eof |-> file.eof],
                               1, file.hermes_file_mapping, bkt, file.buf_size)
              ELSE [disk |-> disk, fpos |-> 0, page_buf |-> file.page_buf,
                    trace |-> << >>, status |-> "run", pos |-> file.pos,
                    op |-> file.op, eof |-> file.eof]
    IN  IF st.status # "run"
        THEN [file |-> [file EXCEPT !.page_buf = st.page_buf, !.pos = st.pos,
                                    !.op = st.op, !.eof = st.eof],
              bkt |-> bkt, disk |-> st.disk, ret |-> FAIL, trace |-> st.trace]
        ELSE [file |-> NoFile,
              bkt |-> EmptyBucket, disk |-> st.disk, ret |-> SUCCEED,
              trace |-> st.trace
                        \o (IF file.persistence THEN <<Ev("fclose", 0)>> ELSE << >>)
                        \o (IF file.ref_count > 1 THEN <<Ev("bucket_close", 0)>>
                            ELSE <<Ev("bucket_destroy", 0)>>)]

(***************************************************************************)
(* H5FD__hermes_open                                                       *)
(***************************************************************************)
H5F_ACC_RDWR == "H5F_ACC_RDWR"

H5F_ACC_TRUNC == "H5F_ACC_TRUNC"

H5F_ACC_EXCL == "H5F_ACC_EXCL"

H5F_ACC_CREAT == "H5F_ACC_CREAT"

\* The backing file as a directory entry: present or not, and its bytes.
NoDisk == [exists |-> FALSE, data |-> << >>]

\* A variant of OpenBacking that never truncates an existing file.
OpenBackingNoTrunc(disk, flags) ==
    IF ~disk.exists
    THEN IF H5F_ACC_CREAT \in flags
         THEN [fp |-> "wb+", disk |-> [exists |-> TRUE, data |-> << >>]]
         ELSE [fp |-> "NULL", disk |-> disk]
    ELSE IF H5F_ACC_EXCL \in flags
    THEN [fp |-> "NULL", disk |-> disk]
    ELSE IF H5F_ACC_RDWR \in flags
    THEN [fp |-> "rb+", disk |-> disk]
    ELSE [fp |-> "rb", disk |-> disk]

\* A variant of OpenBacking that ignores exclusive-create.
OpenBackingNoExcl(disk, flags) ==
    IF ~disk.exists
    THEN IF H5F_ACC_CREAT \in flags
         THEN [fp |-> "wb+", disk |-> [exists |-> TRUE, data |-> << >>]]
         ELSE [fp |-> "NULL", disk |-> disk]
    ELSE IF H5F_ACC_RDWR \in flags
    THEN IF H5F_ACC_TRUNC \in flags
         THEN [fp |-> "wb+", disk |-> [exists |-> TRUE, data |-> << >>]]
         ELSE [fp |-> "rb+", disk |-> disk]
    ELSE [fp |-> "rb", disk |-> disk]

\* The fopen / freopen decisions of open in persistent mode: the stream
\* ("NULL" when the open fails) and the backing file as left.
OpenBacking(disk, flags) ==
    IF ~disk.exists
    THEN IF H5F_ACC_CREAT \in flags
         THEN [fp |-> "wb+", disk |-> [exists |-> TRUE, data |-> << >>]]
         ELSE [fp |-> "NULL", disk |-> disk]
    ELSE IF H5F_ACC_EXCL \in flags
    THEN [fp |-> "NULL", disk |-> disk]
    ELSE IF H5F_ACC_RDWR \in flags
    THEN IF H5F_ACC_TRUNC \in flags
         THEN [fp |-> "wb+", disk |-> [exists |-> TRUE, data |-> << >>]]
         ELSE [fp |-> "rb+", disk |-> disk]
    ELSE [fp |-> "rb", disk |-> disk]

\* The file object open returns: H5FL_CALLOC zeroes every field, then the
\* assignments of open.  page_buf is what HDmalloc returned.
NewFile(persistence, page_size, fp, eof, page_buf) ==
    [open |-> TRUE,
     eoa |-> 0,
     eof |-> eof,
     pos |-> 0,
     op |-> OP_UNKNOWN,
     persistence |-> persistence,
     fp |-> fp,
     buf_size |-> page_size,
     hermes_file_mapping |-> NULL,
     ref_count |-> 1,
     page_buf |-> page_buf]

\* A variant of NeedsInit that forgets the latch.
NeedsInitAlways(initialized) == TRUE

\* "if ((H5OPEN hermes_initialized) == FAIL)": the latch is consulted.
NeedsInit(initialized) == initialized = FAIL

\* The whole call.  fa is the driver's property list; init_ok is what
\* HermesInitHermes returns if it is called; page_buf is what HDmalloc
\* returns.
HermesOpen(initialized, disk, name, flags, maxaddr, fa, init_ok, page_buf) ==
    LET persistence == fa.persistence
        page_size == fa.page_size
        noop == [file |-> NoFile, disk |-> disk, initialized |-> initialized,
                 init_called |-> FALSE]
    IN  IF name = "" THEN noop
        ELSE IF maxaddr = 0 \/ maxaddr = HADDR_UNDEF THEN noop
        ELSE IF ADDR_OVERFLOW(maxaddr) THEN noop
        ELSE IF NeedsInit(initialized) /\ ~init_ok
        THEN [noop EXCEPT !.init_called = TRUE]
        ELSE LET inited == [noop EXCEPT !.initialized = "TRUE",
                                        !.init_called = NeedsInit(initialized)]
                 back == OpenBacking(disk, flags)
             IN  IF ~persistence
                 THEN [inited EXCEPT
                         !.file = NewFile(FALSE, page_size, "NULL", 0, page_buf)]
                 ELSE IF back.fp = "NULL" THEN inited
                 ELSE [inited EXCEPT
                         !.file = NewFile(TRUE, page_size, back.fp,
                                          Len(back.disk.data), page_buf),
                         !.disk = back.disk]

(***************************************************************************)
(* State.                                                                  *)
(***************************************************************************)
VARIABLES
    fapl,               \* what H5Pset_fapl_hermes stored: persistence, page_size
    hermes_initialized, \* the static latch: FAIL or "TRUE"
    hermes_service,     \* the buffer-store service: "down", "up", "finalized"
    file,               \* the H5FD_hermes_t of the open file, or NoFile
    bkt,                \* the blobs of the file's bucket
    disk,               \* the backing file
    crashed,            \* the process has died in undefined behaviour
    last,               \* the last call: its arguments, return value,
                        \* output buffer and the events it issued
    hist                \* history: what the host has done since open

vars == <<fapl, hermes_initialized, hermes_service, file, bkt, disk, crashed,
          last, hist>>

\* What a caller's read buffer holds before the call.
Untouched == 255

FlagSets ==
    { {}, {H5F_ACC_RDWR}, {H5F_ACC_RDWR, H5F_ACC_TRUNC},
      {H5F_ACC_RDWR, H5F_ACC_CREAT},
      {H5F_ACC_RDWR, H5F_ACC_CREAT, H5F_ACC_TRUNC},
      {H5F_ACC_RDWR, H5F_ACC_CREAT, H5F_ACC_EXCL} }

PageSizes == 2..MaxPageSize

\* The (addr, size) pairs that fail the argument checks of read and write.
BadRequests == {<<HADDR_UNDEF, 1>>, <<MAXADDR, 1>>}

\* The (addr, size) pairs the host passes to read and write.
Requests == ((0..MaxAddr) \X (0..MaxSize)) \cup BadRequests

\* n bytes of uninitialised memory.
Garbage(n) == {[i \in 1..n |-> g] : g \in GarbageBytes}

UBOutcomes == {"crash", FAIL}

Call(fn, addr, size, ret, buf, trace) ==
    [fn |-> fn, addr |-> addr, size |-> size, ret |-> ret, buf |-> buf,
     trace |-> trace]

NoHist == [rdwr |-> FALSE, disk0 |-> << >>, eof0 |-> 0, written |-> << >>,
           nwrites |-> 0, ncalls |-> 0, nopens |-> 0, inits |-> 0]

\* In non-persistent mode the driver never looks at a backing file, so
\* none is modelled there.
Init ==
    /\ fapl \in [persistence : BOOLEAN, page_size : PageSizes]
    /\ hermes_initialized = FAIL
    /\ hermes_service = "down"
    /\ file = NoFile
    /\ bkt = EmptyBucket
    /\ disk \in {NoDisk,
                 [exists |-> TRUE,
                  data |-> [i \in 1..MaxFileLen |-> FileStamp(i - 1)]]}
    /\ (~fapl.persistence => disk = NoDisk)
    /\ crashed = FALSE
    /\ last = Call("none", 0, 0, SUCCEED, << >>, << >>)
    /\ hist = NoHist

(***************************************************************************)
(* Actions: one per entry point of the driver.                             *)
(***************************************************************************)
\* H5FD__hermes_open, while fewer than maxopens opens have succeeded.  The
\* call is recorded with its name and flags.
OpenOp(maxopens) ==
    /\ ~crashed
    /\ ~file.open
    /\ hist.nopens < maxopens
    /\ \E name \in {"", "a.dat"}, flags \in FlagSets,
          maxaddr \in {0, MAXADDR, HADDR_UNDEF}, init_ok \in BOOLEAN :
       \E page_buf \in {NULL} \cup Garbage(fapl.page_size) :
          LET r == HermesOpen(hermes_initialized, disk, name, flags, maxaddr,
                              fapl, init_ok, page_buf)
              inits == hist.inits + (IF r.init_called /\ init_ok THEN 1 ELSE 0)
          IN  /\ hermes_initialized' = r.initialized
              /\ hermes_service' = IF r.init_called /\ init_ok THEN "up"
                                   ELSE hermes_service
              /\ file' = r.file
              /\ bkt' = EmptyBucket
              /\ disk' = r.disk
              /\ last' = [fn |-> "open", addr |-> maxaddr, size |-> 0,
                           ret |-> IF r.file.open THEN SUCCEED ELSE FAIL,
                           buf |-> << >>,
                           trace |-> IF r.init_called THEN <<Ev("init", 0)>>
                                     ELSE << >>,
                           name |-> name, flags |-> flags]
              /\ hist' = IF r.file.open
                         THEN [rdwr |-> H5F_ACC_RDWR \in flags,
                               disk0 |-> r.disk.data,
                               eof0 |-> r.file.eof,
                               written |-> << >>,
                               nwrites |-> hist.nwrites,
                               ncalls |-> 0,
                               nopens |-> hist.nopens + 1,
                               inits |-> inits]
                         ELSE [hist EXCEPT !.inits = inits]
    /\ UNCHANGED <<fapl, crashed>>

\* The addresses a write covers get the bytes it wrote.
Record(written, addr, size, buf) ==
    [a \in (DOMAIN written) \cup (addr .. addr + size - 1) |->
        IF a >= addr /\ a < addr + size THEN buf[a - addr + 1] ELSE written[a]]

\* The buffer the host hands to its n-th write.
WriteBuf(n, size) == [i \in 1..size |-> WriteStamp(n, i - 1)]

\* H5FD__hermes_write with a request of reqs.  The host writes only to a
\* file it opened H5F_ACC_RDWR.  past is the memory after the caller's
\* buffer, which the call reads only for the request (0, 0).
WriteOp(reqs) ==
    /\ ~crashed
    /\ file.open
    /\ hist.rdwr
    /\ hist.nwrites < MaxWrites
    /\ hist.ncalls < MaxCalls
    /\ \E req \in reqs :
       \E past \in (IF req = <<0, 0>> /\ file.page_buf # NULL
                    THEN Garbage(file.buf_size)
                    ELSE {<< >>}) :
          LET addr == req[1]
              size == req[2]
              buf == WriteBuf(hist.nwrites + 1, size)
              r == HermesWrite(file, bkt, addr, size, buf \o past)
          IN  /\ file' = r.file
              /\ bkt' = r.bkt
              /\ last' = Call("write", addr, size, r.ret, << >>, r.trace)
              /\ hist' = IF r.ret = SUCCEED
                         THEN [hist EXCEPT
                                 !.written = Record(@, addr, size, buf),
                                 !.nwrites = @ + 1,
                                 !.ncalls = @ + 1]
                         ELSE [hist EXCEPT !.ncalls = @ + 1]
    /\ UNCHANGED <<fapl, hermes_initialized, hermes_service, disk, crashed>>

\* H5FD__hermes_read with a request of reqs.
ReadOp(reqs) ==
    /\ ~crashed
    /\ file.open
    /\ hist.ncalls < MaxCalls
    /\ \E req \in reqs :
       \E ub \in (IF file.fp = "NULL" THEN UBOutcomes ELSE {FAIL}) :
          LET addr == req[1]
              size == req[2]
              r == HermesRead(file, bkt, disk.data, addr, size,
                              [i \in 1..size |-> Untouched], ub)
          IN  /\ file' = r.file
              /\ crashed' = (r.ret = "crash")
              /\ last' = Call("read", addr, size, r.ret, r.buf, r.trace)
    /\ hist' = [hist EXCEPT !.ncalls = @ + 1]
    /\ UNCHANGED <<fapl, hermes_initialized, hermes_service, bkt, disk>>

\* A variant of HermesSetEoa that stores nothing.
HermesSetEoaDropped(f, addr) == f

\* H5FD__hermes_set_eoa, H5FD__hermes_get_eoa and H5FD__hermes_get_eof.
HermesSetEoa(f, addr) == [f EXCEPT !.eoa = addr]

HermesGetEoa(f) == f.eoa

HermesGetEof(f) == f.eof

\* H5FD__hermes_set_eoa
SetEoa ==
    /\ ~crashed
    /\ file.open
    /\ \E addr \in {0, MaxAddr, HADDR_UNDEF} :
          /\ file' = HermesSetEoa(file, addr)
          /\ last' = Call("set_eoa", addr, 0, SUCCEED, << >>, << >>)
    /\ UNCHANGED <<fapl, hermes_initialized, hermes_service, bkt, disk, crashed,
                   hist>>

\* H5FD__hermes_close
Close ==
    /\ ~crashed
    /\ file.open
    /\ LET r == HermesClose(file, bkt, disk.data)
       IN  /\ file' = r.file
           /\ bkt' = r.bkt
           /\ disk' = [disk EXCEPT !.data = r.disk]
           /\ last' = Call("close", 0, 0, r.ret, << >>, r.trace)
    /\ UNCHANGED <<fapl, hermes_initialized, hermes_service, crashed, hist>>

\* H5FD__hermes_term: the host calls it once no file of the driver is open.
Term ==
    /\ ~crashed
    /\ ~file.open
    /\ hermes_service' = "finalized"
    /\ last' = Call("term", 0, 0, SUCCEED, << >>, <<Ev("finalize", 0)>>)
    /\ UNCHANGED <<fapl, hermes_initialized, file, bkt, disk, crashed, hist>>

(***************************************************************************)
(* Specifications.                                                         *)
(***************************************************************************)
\* One open file and the I/O on it.
Open == OpenOp(1)

Write == WriteOp(Requests)

Read == ReadOp(Requests)

Next == Open \/ Write \/ Read \/ Close

Spec == Init /\ [][Next]_vars

(***************************************************************************)
(* The naming of pages on its own: the loops of read, write and close name *)
(* page k by snprintf(k_blob, sizeof(k_blob), "%zu\n", k) and put its     *)
(* blob under that name.  Here each page's blob holds the page's index.    *)
(***************************************************************************)
MaxPuts == 3

PageIndices ==
    {0, 1, 9, 10, 99999999, 100000000, 999999999, 1000000000, 1000000001,
     1234567890, 1234567891, 2147483646}

PutPage ==
    /\ hist.ncalls < MaxPuts
    /\ \E k \in PageIndices :
          /\ bkt' = HermesBucketPut(bkt, BlobName(k), <<k>>)
          /\ last' = Call("put", k, 1, SUCCEED, BlobName(k), <<Ev("put", k)>>)
          /\ hist' = [hist EXCEPT !.written = Record(@, k, 1, <<k>>),
                                  !.ncalls = @ + 1]
    /\ UNCHANGED <<fapl, hermes_initialized, hermes_service, file, disk, crashed>>

NextName == PutPage

SpecName == Init /\ [][NextName]_vars

(***************************************************************************)
(* The life of the driver in one process: several opens and closes, the    *)
(* eoa accessors and term, with a few requests of each kind.               *)
(***************************************************************************)
MaxOpens == 2

LifeRequests == {<<0, 1>>, <<1, 2>>, <<HADDR_UNDEF, 1>>}

OpenLife == OpenOp(MaxOpens)

WriteLife == WriteOp(LifeRequests)

ReadLife == ReadOp(LifeRequests)

NextLife == OpenLife \/ WriteLife \/ ReadLife \/ SetEoa \/ Close \/ Term

SpecLife == Init /\ [][NextLife]_vars

(***************************************************************************)
(* Vocabulary of the properties.                                           *)
(***************************************************************************)
\* The last call was a read / a write that returned success.
ReadOk == file.open /\ last.fn = "read" /\ last.ret = SUCCEED

WriteOk == file.open /\ last.fn = "write" /\ last.ret = SUCCEED

\* The step is a call of read / write / close on the open file.
ReadStep == file.open /\ last'.fn = "read" /\ hist'.ncalls = hist.ncalls + 1

WriteStep == file.open /\ last'.fn = "write" /\ hist'.ncalls = hist.ncalls + 1

CloseStep == file.open /\ last'.fn = "close" /\ hist' = hist /\ file' # file

\* The step is a call of open.
OpenStep == ~file.open /\ last'.fn = "open"

\* The name and maxaddr pass the argument checks of open.
ValidOpenArgs(name, maxaddr) ==
    /\ name # ""
    /\ maxaddr # 0
    /\ maxaddr # HADDR_UNDEF
    /\ ~ADDR_OVERFLOW(maxaddr)

\* The request passes the argument checks of read and write.
ValidRequest(f, addr, size) ==
    /\ H5F_addr_defined(addr)
    /\ ~REGION_OVERFLOW(addr, size)
    /\ f.page_buf # NULL

\* Every write recorded since open had size > 0.
SizedWrites ==
    \A i \in 1..Len(file.hermes_file_mapping) : file.hermes_file_mapping[i].size > 0

\* The write whose stamp byte b carries.
StampOf(b) == (b - 1) \div 16

\* The pages whose byte range meets [addr, addr + size), size > 0.
PagesOf(addr, size, blob_size) ==
    (addr \div blob_size) .. ((addr + size - 1) \div blob_size)

\* The largest addr + size among the recorded writes, and base.
RECURSIVE MaxEnd(_, _)
MaxEnd(mapping, base) ==
    IF mapping = << >> THEN base
    ELSE Max(mapping[1].addr + mapping[1].size, MaxEnd(Tail(mapping), base))

(***************************************************************************)
(* C1: after successful writes of size > 0, a successful read of a range   *)
(* every byte of which some write covered returns, at each byte, the value *)
(* of the most recent write that covered it.                               *)
(***************************************************************************)
C1_RoundTrip ==
    (/\ ReadOk
     /\ last.size > 0
     /\ SizedWrites
     /\ (last.addr .. last.addr + last.size - 1) \subseteq DOMAIN hist.written)
    => \A i \in 1..last.size : last.buf[i] = hist.written[last.addr + i - 1]

\* Two overlapping writes, then a read over several pages that returns
\* bytes of both.
C1_Witness ==
    /\ ReadOk
    /\ SizedWrites
    /\ Len(file.hermes_file_mapping) = 2
    /\ LET m1 == file.hermes_file_mapping[1]
           m2 == file.hermes_file_mapping[2]
       IN  /\ m2.addr < m1.addr + m1.size
           /\ m1.addr < m2.addr + m2.size
    /\ last.size >= 3
    /\ (last.addr .. last.addr + last.size - 1) \subseteq DOMAIN hist.written
    /\ \E i, j \in 1..last.size :
          StampOf(last.buf[i]) = 1 /\ StampOf(last.buf[j]) = 2
    /\ \A i \in 1..last.size : last.buf[i] = hist.written[last.addr + i - 1]

(***************************************************************************)
(* C2: in persistent mode, after a successful close, every byte of the     *)
(* backing file in [0, eof) equals the byte a read of that address would   *)
(* have returned immediately before the close.                             *)
(***************************************************************************)
C2_PersistenceEquivalence ==
    [][(CloseStep /\ file.persistence /\ ~file'.open)
       => \A a \in 0..(file.eof - 1) :
             LET r == HermesRead(file, bkt, disk.data, a, 1, <<Untouched>>, FAIL)
             IN  r.ret = SUCCEED
                 => /\ a < Len(disk'.data)
                    /\ disk'.data[a + 1] = r.buf[1]]_vars

(***************************************************************************)
(* C3: in persistent mode a read within eof over pages that have no blob   *)
(* returns exactly the bytes of the backing file at [addr, addr + size).   *)
(***************************************************************************)
C3_FaultFromBacking ==
    (/\ file.open
     /\ last.fn = "read"
     /\ file.persistence
     /\ ValidRequest(file, last.addr, last.size)
     /\ last.size > 0
     /\ last.addr + last.size <= file.eof
     /\ last.addr + last.size <= Len(disk.data)
     /\ bkt = EmptyBucket)
    => /\ last.ret = SUCCEED
       /\ last.buf = Slice(disk.data, last.addr, last.size)

(***************************************************************************)
(* C4 as claimed: every read with addr >= eof succeeds, returns size zero  *)
(* bytes and issues no buffer-store operation.                             *)
(***************************************************************************)
C4_BeyondEofAlwaysSucceeds ==
    [][(ReadStep /\ last'.addr >= file.eof)
       => /\ last'.ret = SUCCEED
          /\ last'.buf = Zeros(last'.size)
          /\ last'.trace = << >>
          /\ bkt' = bkt
          /\ file'.eof = file.eof]_vars

(***************************************************************************)
(* C4 as amended: a read that passes the argument checks (addr defined,    *)
(* no overflow of addr + size, scratch buffer allocated) with addr >= eof  *)
(* succeeds, returns size zero bytes, issues no buffer-store operation,    *)
(* creates no blob and leaves eof as it was.                               *)
(***************************************************************************)
C4_BeyondEofZeroFill ==
    [][(/\ ReadStep
        /\ ValidRequest(file, last'.addr, last'.size)
        /\ last'.addr >= file.eof)
       => /\ last'.ret = SUCCEED
          /\ last'.buf = Zeros(last'.size)
          /\ last'.trace = << >>
          /\ bkt' = bkt
          /\ file'.eof = file.eof]_vars

\* A fresh non-persistent file, read at address 0: zeros, no blob, eof 0.
C4_Witness ==
    /\ ReadOk
    /\ ~file.persistence
    /\ file.eof = 0
    /\ last.addr = 0
    /\ last.size = MaxSize
    /\ last.buf = Zeros(MaxSize)
    /\ last.trace = << >>
    /\ bkt = EmptyBucket

(***************************************************************************)
(* C5: eof never decreases while the file is open; after a successful      *)
(* write eof >= addr + size; eof is the maximum of its value at open and   *)
(* of addr + size over the successful writes.                              *)
(***************************************************************************)
C5_EofMonotone ==
    [][(file.open /\ file'.open)
       => /\ file'.eof >= file.eof
          /\ (WriteStep /\ last'.ret = SUCCEED
                => file'.eof >= last'.addr + last'.size)
          /\ file'.eof = MaxEnd(file'.hermes_file_mapping, hist'.eof0)]_vars

\* A second write ending below eof leaves eof where the first, ending
\* beyond the end of file found at open, put it.
C5_Witness ==
    /\ WriteOk
    /\ Len(file.hermes_file_mapping) = 2
    /\ last.size > 0
    /\ last.addr + last.size < file.eof
    /\ file.eof > hist.eof0
    /\ file.eof = file.hermes_file_mapping[1].addr + file.hermes_file_mapping[1].size

(***************************************************************************)
(* C6: from any state of an open file, one write (a, n) and the two        *)
(* consecutive writes (a, n1), (a + n1, n - n1) of the same bytes leave    *)
(* the same eof and the same answer to every later read; one read (a, n)   *)
(* returns the concatenation of the reads (a, n1), (a + n1, n - n1).       *)
(***************************************************************************)
SameReads(f1, b1, f2, b2) ==
    \A req \in Requests :
        LET r1 == HermesRead(f1, b1, disk.data, req[1], req[2],
                             [i \in 1..req[2] |-> Untouched], FAIL)
            r2 == HermesRead(f2, b2, disk.data, req[1], req[2],
                             [i \in 1..req[2] |-> Untouched], FAIL)
        IN  r1.ret = r2.ret /\ r1.buf = r2.buf

C6_PartitionInvariance ==
    (file.open /\ file.page_buf # NULL)
    => \A a \in 0..MaxAddr, n \in 2..MaxSize, n1 \in 1..(MaxSize - 1) :
          n1 < n =>
            LET buf == WriteBuf(hist.nwrites + 1, n)
                one == HermesWrite(file, bkt, a, n, buf)
                w1 == HermesWrite(file, bkt, a, n1, SubSeq(buf, 1, n1))
                two == HermesWrite(w1.file, w1.bkt, a + n1, n - n1,
                                   SubSeq(buf, n1 + 1, n))
                whole == HermesRead(file, bkt, disk.data, a, n,
                                    [i \in 1..n |-> Untouched], FAIL)
                r1 == HermesRead(file, bkt, disk.data, a, n1,
                                 [i \in 1..n1 |-> Untouched], FAIL)
                r2 == HermesRead(r1.file, bkt, disk.data, a + n1, n - n1,
                                 [i \in 1..(n - n1) |-> Untouched], FAIL)
            IN  /\ one.file.eof = two.file.eof
                /\ SameReads(one.file, one.bkt, two.file, two.bkt)
                /\ (whole.ret = SUCCEED
                      => /\ r1.ret = SUCCEED
                         /\ r2.ret = SUCCEED
                         /\ whole.buf = r1.buf \o r2.buf)

(***************************************************************************)
(* C7: in non-persistent mode, after successful writes, every byte a       *)
(* successful read returns from an address no write covered is 0.          *)
(***************************************************************************)
C7_UnwrittenReadsZero ==
    (ReadOk /\ ~file.persistence /\ SizedWrites)
    => \A i \in 1..last.size :
          (last.addr + i - 1) \notin DOMAIN hist.written => last.buf[i] = 0

(***************************************************************************)
(* C8: whenever read or write returns failure, pos is HADDR_UNDEF and op   *)
(* is OP_UNKNOWN on return.                                                *)
(***************************************************************************)
C8_FailureResetsIO ==
    (file.open /\ last.fn \in {"read", "write"} /\ last.ret = FAIL)
    => (file.pos = HADDR_UNDEF /\ file.op = OP_UNKNOWN)

\* After a successful write has set pos and op, a read of a valid request
\* fails on a short fread of the backing file.
C8_Witness ==
    /\ file.open
    /\ last.fn = "read"
    /\ last.ret = FAIL
    /\ ValidRequest(file, last.addr, last.size)
    /\ Len(file.hermes_file_mapping) >= 1
    /\ \E i \in 1..Len(last.trace) :
          last.trace[i][1] = "fread" /\ last.trace[i][2] < file.buf_size
    /\ file.pos = HADDR_UNDEF
    /\ file.op = OP_UNKNOWN

(***************************************************************************)
(* C9: once a write of size > 0 has succeeded, every page whose byte range *)
(* meets [addr, addr + size) has a blob under its name in the bucket, in   *)
(* every state until the file is closed.                                   *)
(***************************************************************************)
C9_BlobsOfWrittenPages ==
    file.open
    => \A i \in 1..Len(file.hermes_file_mapping) :
          LET m == file.hermes_file_mapping[i]
          IN  m.size > 0
              => \A k \in PagesOf(m.addr, m.size, file.buf_size) :
                    HermesBucketContainsBlob(bkt, BlobName(k))

\* A write over three pages, a second write, and a later read: the blobs
\* of all three pages are in the bucket.
C9_Witness ==
    /\ file.open
    /\ last.fn = "read"
    /\ Len(file.hermes_file_mapping) = 2
    /\ LET m == file.hermes_file_mapping[1]
       IN  /\ m.size > 0
           /\ Cardinality(PagesOf(m.addr, m.size, file.buf_size)) = 3
           /\ \A k \in PagesOf(m.addr, m.size, file.buf_size) :
                 HermesBucketContainsBlob(bkt, BlobName(k))

(***************************************************************************)
(* C10: the blob name is injective across page indices, so a put to one    *)
(* page never overwrites the blob of another: every page that was put      *)
(* still finds its own blob under its name.                                *)
(***************************************************************************)
C10_NamesInjective ==
    /\ \A k1, k2 \in DOMAIN hist.written :
          BlobName(k1) = BlobName(k2) => k1 = k2
    /\ \A k \in DOMAIN hist.written :
          /\ HermesBucketContainsBlob(bkt, BlobName(k))
          /\ HermesBucketGet(bkt, BlobName(k)) = <<k>>

(***************************************************************************)
(* C11: in persistent mode, for a backing file created empty or truncated  *)
(* at open, after a successful close the length of the backing file is     *)
(* exactly eof.                                                            *)
(***************************************************************************)
C11_CloseLengthIsEof ==
    [][(/\ CloseStep
        /\ file.persistence
        /\ file.fp = "wb+"
        /\ SizedWrites
        /\ ~file'.open
        /\ last'.ret = SUCCEED)
       => Len(disk'.data) = file.eof]_vars

(***************************************************************************)
(* C12: immediately after a successful open eof is 0 in non-persistent     *)
(* mode; in persistent mode it is the length of the backing file as the    *)
(* open left it: 0 when the file was newly created or truncate was         *)
(* requested, the file's prior length otherwise.                           *)
(***************************************************************************)
C12_EofAfterOpen ==
    [][(OpenStep /\ file'.open)
       => IF ~file'.persistence THEN file'.eof = 0
          ELSE /\ file'.eof = Len(disk'.data)
               /\ file'.eof = IF ~disk.exists \/ H5F_ACC_TRUNC \in last'.flags
                              THEN 0
                              ELSE Len(disk.data)]_vars

\* The backing file an earlier open created and its close filled, opened
\* again read-write without truncate: eof is the length the close left.
C12_Witness ==
    /\ file.open
    /\ last.fn = "open"
    /\ file.persistence
    /\ hist.nopens = MaxOpens
    /\ H5F_ACC_RDWR \in last.flags
    /\ H5F_ACC_TRUNC \notin last.flags
    /\ file.eof > 0
    /\ file.eof < MaxFileLen
    /\ Len(disk.data) = file.eof

(***************************************************************************)
(* C13 as claimed: a persistent-mode open with a valid name and maxaddr    *)
(* fails when the backing file does not exist and create was not           *)
(* requested, and when it exists and exclusive-create was requested; in    *)
(* every other combination it returns a file object.                       *)
(***************************************************************************)
C13_OpenFailsExactlyOnFlags ==
    [][(/\ OpenStep
        /\ fapl.persistence
        /\ ValidOpenArgs(last'.name, last'.addr))
       => (file'.open
             <=> ~(\/ ~disk.exists /\ H5F_ACC_CREAT \notin last'.flags
                   \/ disk.exists /\ H5F_ACC_EXCL \in last'.flags))]_vars

(***************************************************************************)
(* C13 as amended: the same, for an open in which the buffer-store         *)
(* initialisation did not fail.                                            *)
(***************************************************************************)
C13_OpenFailsOnFlagsOnceInitialised ==
    [][(/\ OpenStep
        /\ fapl.persistence
        /\ ValidOpenArgs(last'.name, last'.addr)
        /\ hermes_initialized' = "TRUE")
       => (file'.open
             <=> ~(\/ ~disk.exists /\ H5F_ACC_CREAT \notin last'.flags
                   \/ disk.exists /\ H5F_ACC_EXCL \in last'.flags))]_vars

\* Exclusive-create of a backing file that exists: no file object.
C13_Witness ==
    /\ ~file.open
    /\ last.fn = "open"
    /\ last.ret = FAIL
    /\ fapl.persistence
    /\ ValidOpenArgs(last.name, last.addr)
    /\ hermes_initialized = "TRUE"
    /\ disk.exists
    /\ H5F_ACC_EXCL \in last.flags

(***************************************************************************)
(* C14: across the opens of one process the buffer-store initialiser       *)
(* succeeds at most once: once it has succeeded no later open calls it;    *)
(* an open whose initialisation fails returns failure, and a later open    *)
(* attempts the initialisation again.                                      *)
(***************************************************************************)
InitCalled(call) == \E i \in 1..Len(call.trace) : call.trace[i] = Ev("init", 0)

C14_InitLatch ==
    [][OpenStep
       => /\ (hermes_initialized = "TRUE"
                => ~InitCalled(last') /\ hermes_initialized' = "TRUE")
          /\ (InitCalled(last') /\ hermes_initialized' = FAIL => ~file'.open)
          /\ (hermes_initialized = FAIL /\ ValidOpenArgs(last'.name, last'.addr)
                => InitCalled(last'))
          /\ hist'.inits <= 1]_vars

\* The second successful open of the process: the initialiser, which
\* succeeded once, is not called.
C14_Witness ==
    /\ file.open
    /\ last.fn = "open"
    /\ hist.nopens = MaxOpens
    /\ hist.inits = 1
    /\ ~InitCalled(last)
    /\ hermes_initialized = "TRUE"

FaultedPages(call) ==
    {call.trace[i][2] : i \in {j \in 1..(Len(call.trace) - 1) :
                                  /\ call.trace[j][1] = "contains"
                                  /\ call.trace[j + 1][1] = "fseek"}}

C16_FaultPromoted ==
    [][(ReadStep /\ file.persistence /\ last'.ret = SUCCEED)
       => \A k \in FaultedPages(last') :
             /\ HermesBucketContainsBlob(bkt', BlobName(k))
             /\ \A o \in 0..(file.buf_size - 1) :
                   k * file.buf_size + o < Len(disk.data)
                   => HermesBucketGet(bkt', BlobName(k))[o + 1]
                        = disk.data[k * file.buf_size + o + 1]]_vars

(***************************************************************************)
(* C17: in non-persistent mode a read with addr < eof that needs bytes of  *)
(* a page with no blob returns failure with pos = HADDR_UNDEF and          *)
(* op = OP_UNKNOWN, and never touches a backing-file handle.               *)
(***************************************************************************)
C17_AbsentBlobReadFails ==
    [][(/\ ReadStep
        /\ ~file.persistence
        /\ ValidRequest(file, last'.addr, last'.size)
        /\ last'.size > 0
        /\ last'.addr < file.eof
        /\ \E k \in PagesOf(last'.addr, last'.size, file.buf_size) :
              ~HermesBucketContainsBlob(bkt, BlobName(k)))
       => /\ last'.ret = FAIL
          /\ ~crashed'
          /\ file'.pos = HADDR_UNDEF
          /\ file'.op = OP_UNKNOWN
          /\ \A i \in 1..Len(last'.trace) :
                last'.trace[i][1] \notin {"fseek", "fread"}]_vars

(***************************************************************************)
(* C18: in persistent mode, when eof is not a multiple of the page size, a *)
(* read with addr + size <= eof that faults in the last, partial page of   *)
(* the backing file succeeds.                                              *)
(***************************************************************************)
C18_ShortReadNearEof ==
    (/\ file.open
     /\ file.persistence
     /\ file.page_buf # NULL
     /\ file.eof % file.buf_size # 0
     /\ Len(disk.data) = file.eof
     /\ ~HermesBucketContainsBlob(bkt, BlobName(file.eof \div file.buf_size)))
    => \A addr \in 0..(file.eof - 1), size \in 1..MaxSize :
          (/\ addr + size <= file.eof
           /\ (file.eof \div file.buf_size)
                 \in PagesOf(addr, size, file.buf_size))
          => HermesRead(file, bkt, disk.data, addr, size,
                        [i \in 1..size |-> Untouched], FAIL).ret = SUCCEED

(***************************************************************************)
(* C19: within one call of read, write or close the buffer-store           *)
(* operations that carry blob data (get, put) are issued in increasing     *)
(* page-index order, and no page is fetched twice.                         *)
(***************************************************************************)
C19_IncreasingPageOrder ==
    last.fn \in {"read", "write", "close"}
    => \A i, j \in 1..Len(last.trace) :
          (/\ i < j
           /\ last.trace[i][1] \in {"get", "put"}
           /\ last.trace[j][1] \in {"get", "put"})
          => /\ last.trace[i][2] <= last.trace[j][2]
             /\ (last.trace[i][1] = "get" /\ last.trace[j][1] = "get"
                   => last.trace[i][2] < last.trace[j][2])

(***************************************************************************)
(* C20: in persistent mode close writes blob data to the backing file      *)
(* exactly when the last operation on the file was a write: after a read,  *)
(* no I/O or a failed I/O, close performs no write to the backing file.    *)
(***************************************************************************)
WritesBack(call) == \E i \in 1..Len(call.trace) : call.trace[i][1] = "fwrite"

C20_CloseWritesOnlyAfterWrite ==
    [][(CloseStep /\ file.persistence)
       => /\ (file.op # OP_WRITE => ~WritesBack(last') /\ disk' = disk)
          /\ (file.op = OP_WRITE /\ last'.ret = SUCCEED
                => WritesBack(last'))]_vars

(***************************************************************************)
(* C21: after every read or write that returns success pos = addr + size   *)
(* of that call and op is OP_READ or OP_WRITE respectively, the reads      *)
(* answered by the size == 0 and addr >= eof short-circuits included.      *)
(***************************************************************************)
C21_PosOpAfterSuccess ==
    /\ (ReadOk => file.pos = last.addr + last.size /\ file.op = OP_READ)
    /\ (WriteOk => file.pos = last.addr + last.size /\ file.op = OP_WRITE)

\* The number of bytes the three-way classification of the page loops of
\* read and write transfers for page k, and the offset in page k at which
\* it places them.
PageBytes(addr, size, k, blob_size) ==
    IF InFirstPartial(addr, k, blob_size)
    THEN FirstLen(addr, AddrEnd(addr, size), size, k, blob_size)
    ELSE IF InLastPartial(AddrEnd(addr, size), k, blob_size)
    THEN LastLen(AddrEnd(addr, size), k, blob_size)
    ELSE IF InWholePage(addr, AddrEnd(addr, size), k, blob_size)
    THEN blob_size
    ELSE 0

PageOffset(addr, k, blob_size) ==
    IF InFirstPartial(addr, k, blob_size) THEN addr - k * blob_size ELSE 0

\* transfer_size on entry to the iteration for page k.
RECURSIVE TransferSize(_, _, _, _)
TransferSize(addr, size, k, blob_size) ==
    IF k <= StartPageIndex(addr, blob_size) THEN 0
    ELSE TransferSize(addr, size, k - 1, blob_size)
         + PageBytes(addr, size, k - 1, blob_size)

\* transfer_size when the page loop of a write (addr, size) of file f ends,
\* and when the page loop of a read ends without a goto done.
WriteTransfer(f, b, addr, size) ==
    WriteLoop([page_buf |-> f.page_buf, bkt |-> b, transfer_size |-> 0,
               trace |-> << >>],
              StartPageIndex(addr, f.buf_size),
              EndPageIndex(addr, size, f.buf_size),
              addr, size, WriteBuf(1, size), f.buf_size).transfer_size

ReadTransfer(f, b, d, addr, size) ==
    LET st == ReadLoop([page_buf |-> f.page_buf,
                        buf |-> [i \in 1..size |-> Untouched],
                        transfer_size |-> 0, trace |-> << >>,
                        status |-> "run"],
                       StartPageIndex(addr, f.buf_size),
                       EndPageIndex(addr, size, f.buf_size),
                       f, b, d, addr, size, FAIL)
    IN  IF st.status = "run" THEN st.transfer_size ELSE size

(***************************************************************************)
(* C22: for every page size, addr and size > 0 the three-way               *)
(* classification over pages addr/P .. (addr+size)/P assigns byte counts   *)
(* that sum to size, the pieces cover [addr, addr + size) contiguously and *)
(* in order, and page (addr+size)/P gets zero bytes when addr + size is a  *)
(* multiple of P; so the running transfer total of a write, and of a read  *)
(* that does not fail, ends equal to size.                                 *)
(***************************************************************************)
C22_ClassificationSumsToSize ==
    file.open =>
      \A req \in Requests :
        LET addr == req[1]
            size == req[2]
            P == file.buf_size
            e == EndPageIndex(addr, size, P)
        IN  (size > 0 /\ ValidRequest(file, addr, size)) =>
              /\ TransferSize(addr, size, e + 1, P) = size
              /\ \A k \in StartPageIndex(addr, P) .. e :
                    PageBytes(addr, size, k, P) > 0 =>
                      /\ k * P + PageOffset(addr, k, P)
                           = addr + TransferSize(addr, size, k, P)
                      /\ PageOffset(addr, k, P) + PageBytes(addr, size, k, P) <= P
              /\ ((addr + size) % P = 0 => PageBytes(addr, size, e, P) = 0)
              /\ WriteTransfer(file, bkt, addr, size) = size
              /\ ReadTransfer(file, bkt, disk.data, addr, size) = size

\* A write of several pages that starts part-way into a page and ends on a
\* page boundary has returned success.
C22_Witness ==
    /\ WriteOk
    /\ last.size > 0
    /\ last.addr % file.buf_size # 0
    /\ (last.addr + last.size) % file.buf_size = 0
    /\ EndPageIndex(last.addr, last.size, file.buf_size)
         > StartPageIndex(last.addr, file.buf_size) + 1
    /\ TransferSize(last.addr, last.size,
                    EndPageIndex(last.addr, last.size, file.buf_size) + 1,
                    file.buf_size) = last.size

(***************************************************************************)
(* C23: in persistent mode close returns success after any sequence of     *)
(* successful writes with size > 0, the writes that end exactly on a page  *)
(* boundary included.                                                      *)
(***************************************************************************)
C23_CloseSucceedsAfterSizedWrites ==
    [][(CloseStep /\ file.persistence /\ SizedWrites
          /\ file.hermes_file_mapping # << >>)
         => last'.ret = SUCCEED]_vars

\* The byte the backing file d holds at offset o; past its end, and in a
\* hole left by an fseek past its end, a file reads as zeros.
ByteAt(d, o) == IF o < Len(d) THEN d[o + 1] ELSE 0

\* One past the last offset of the ranges in written, and base.
EndOf(written, base) ==
    IF DOMAIN written = {} THEN base
    ELSE Max(base, 1 + CHOOSE a \in DOMAIN written :
                          \A b \in DOMAIN written : b <= a)

(***************************************************************************)
(* C24: in persistent mode close changes the backing file only at offsets  *)
(* inside the union of the ranges [addr, addr + size) of the writes made   *)
(* since open; every other byte of the file is as it was right after open. *)
(* A byte that close leaves as a hole between the old end of the file and  *)
(* a written range counts as unchanged.                                    *)
(***************************************************************************)
C24_CloseWritesOnlyWrittenRanges ==
    [][(CloseStep /\ file.persistence) =>
         /\ Len(disk'.data) <= EndOf(hist.written, Len(hist.disk0))
         /\ \A o \in 0 .. Max(Len(disk'.data), Len(hist.disk0)) :
               o \notin DOMAIN hist.written =>
                  ByteAt(disk'.data, o) = ByteAt(hist.disk0, o)]_vars

\* The step is a write of size 0 that passes the argument checks.
ZeroWriteStep ==
    WriteStep /\ last'.size = 0 /\ ValidRequest(file, last'.addr, last'.size)

(***************************************************************************)
(* C25: a write with size == 0, at any valid addr, returns success and     *)
(* changes nothing observable: no blob is created or modified, eof is      *)
(* unchanged, and nothing is recorded for close to write back.  (That      *)
(* nothing is read from the caller's buffer follows from no blob changing.)*)
(***************************************************************************)
C25_ZeroWriteIsNoOp ==
    [][ZeroWriteStep =>
         /\ last'.ret = SUCCEED
         /\ bkt' = bkt
         /\ file'.eof = file.eof
         /\ file'.hermes_file_mapping = file.hermes_file_mapping]_vars

(***************************************************************************)
(* C26: in every reachable state in which a file is open the buffer-store  *)
(* service is initialized and not finalized, also for a file opened after  *)
(* an open, a close and a terminate of the driver.                         *)
(***************************************************************************)
C26_ServiceUpWhileOpen == file.open => hermes_service = "up"

\* The blob of page k in bucket b, NULL when there is none.
BlobOf(b, k) ==
    IF HermesBucketContainsBlob(b, BlobName(k))
    THEN HermesBucketGet(b, BlobName(k)) ELSE NULL

\* The pages with a blob in bucket b, among those a request can name.
BlobPages(b) ==
    {k \in 0 .. (MaxAddr + MaxSize) : HermesBucketContainsBlob(b, BlobName(k))}

\* Every blob of b1 is in b2 with the same contents.
BlobsKept(b1, b2) ==
    \A k \in BlobPages(b1) : BlobOf(b2, k) = BlobOf(b1, k)

\* The step is a successful write of size > 0.
SizedWriteStep == WriteStep /\ last'.ret = SUCCEED /\ last'.size > 0

(***************************************************************************)
(* C27: a successful write(addr, size) with size > 0 creates or modifies   *)
(* only blobs of pages that intersect [addr, addr + size); every other     *)
(* blob keeps its contents, no blob is created for page (addr+size)/P when *)
(* addr + size is a multiple of P, and in a modified page whose blob       *)
(* already existed every byte outside [addr, addr + size) keeps its value. *)
(***************************************************************************)
C27_WriteTouchesOnlyItsPages ==
    [][SizedWriteStep =>
         LET addr == last'.addr
             size == last'.size
             P == file.buf_size
         IN  \A k \in 0 .. (MaxAddr + MaxSize) :
                /\ k \notin PagesOf(addr, size, P) => BlobOf(bkt', k) = BlobOf(bkt, k)
                /\ (k \in PagesOf(addr, size, P) /\ BlobOf(bkt, k) # NULL) =>
                      \A o \in 0 .. P - 1 :
                         (k * P + o < addr \/ k * P + o >= addr + size) =>
                            BlobOf(bkt', k)[o + 1] = BlobOf(bkt, k)[o + 1]]_vars

\* A write ending on a page boundary has rewritten part of a page whose
\* blob existed, next to a page with a blob it does not reach.
C27_Witness ==
    /\ WriteOk
    /\ last.size > 0
    /\ hist.nwrites = 2
    /\ last.addr % file.buf_size # 0
    /\ (last.addr + last.size) % file.buf_size = 0
    /\ StampOf(BlobOf(bkt, StartPageIndex(last.addr, file.buf_size))[1]) = 1
    /\ BlobOf(bkt, EndPageIndex(last.addr, last.size, file.buf_size)) # NULL

\* What a read (addr, size) of file f returns in the caller's buffer when
\* it succeeds; NULL when it does not.
ReadBytes(f, b, d, addr, size) ==
    LET r == HermesRead(f, b, d, addr, size, [i \in 1..size |-> Untouched], FAIL)
    IN  IF r.ret = SUCCEED THEN r.buf ELSE NULL

(***************************************************************************)
(* C28: a read, successful or failed, never changes eof, eoa, the record   *)
(* of writes or the contents of a blob that existed before it; two         *)
(* identical successful reads with no write between them return the same   *)
(* bytes, also with another read between them.                             *)
(***************************************************************************)
C28_ReadChangesNothing ==
    [][ReadStep =>
         /\ file'.eof = file.eof
         /\ file'.eoa = file.eoa
         /\ file'.hermes_file_mapping = file.hermes_file_mapping
         /\ BlobsKept(bkt, bkt')
         /\ (ReadOk /\ last'.ret = SUCCEED
               /\ last'.addr = last.addr /\ last'.size = last.size)
              => last'.buf = last.buf
         /\ ReadOk =>
              LET again == ReadBytes(file', bkt', disk'.data, last.addr, last.size)
              IN  again # NULL => again = last.buf]_vars

\* After a write, a read has fetched bytes of a blob and a second read of
\* the same range returns the same bytes.
C28_Witness ==
    /\ ReadOk
    /\ hist.nwrites = 1
    /\ hist.ncalls = 3
    /\ last.size > 1
    /\ \E i \in 1..Len(last.trace) : last.trace[i][1] = "get"
    /\ ReadBytes(file, bkt, disk.data, last.addr, last.size) = last.buf
    /\ file.eof = MaxEnd(file.hermes_file_mapping, hist.eof0)

\* The step is a write that returns FAIL.
FailedWriteStep == WriteStep /\ last'.ret = FAIL

(***************************************************************************)
(* C29: a failed write (undefined addr, overflow, missing scratch buffer)  *)
(* leaves eof, every blob and the record of writes exactly as they were;   *)
(* only pos and op change.                                                 *)
(***************************************************************************)
C29_FailedWriteChangesOnlyPosOp ==
    [][FailedWriteStep =>
         /\ file'.eof = file.eof
         /\ bkt' = bkt
         /\ file'.hermes_file_mapping = file.hermes_file_mapping
         /\ disk' = disk
         /\ file' = [file EXCEPT !.pos = HADDR_UNDEF, !.op = OP_UNKNOWN]]_vars

\* A write has failed the overflow check after a successful write left a
\* blob, a record and a raised eof behind.
C29_Witness ==
    /\ file.open
    /\ last.fn = "write"
    /\ last.ret = FAIL
    /\ REGION_OVERFLOW(last.addr, last.size)
    /\ hist.nwrites = 1
    /\ Len(file.hermes_file_mapping) = 1
    /\ BlobPages(bkt) # {}
    /\ file.eof > hist.eof0
    /\ file.pos = HADDR_UNDEF
    /\ file.op = OP_UNKNOWN

====
